---- MODULE Spec2Model ----
(***************************************************************************)
(* Model of src/workshop/main.py: the command-line chat client that        *)
(* bootstraps a remote agent (initialize), pumps terminal lines through    *)
(* post_message (main's loop) and tears the remote resources down          *)
(* (cleanup).  Text is modelled as sequences of one-character strings so   *)
(* that str.replace, str.lower and strftime are computed, not assumed.     *)
(* Calls into the remote SDK, the database object and the terminal are     *)
(* environment steps: each returns or raises one of the listed errors.     *)
(***************************************************************************)
EXTENDS Integers, Sequences, FiniteSets, TLC

VARIABLES
    pc,            \* position of the single coroutine (main and its callees)
    file,          \* content of INSTRUCTIONS_FILE on disk, or Missing
    today,         \* the calendar date date.today() returns
    conn,          \* sales_data.conn: "None", "open" or "closed"
    toolset,       \* module-level AsyncToolSet: the tools added so far
    database_schema_string,  \* local of initialize()
    instructions,  \* local of initialize()
    agent,         \* local of main(): Unbound until initialize() returns
    thread,        \* local of main(): Unbound until initialize() returns
    calls,         \* every awaited call on project_client and sales_data, in
                   \* order, each with its outcome ("ok" or the error raised)
    outcome,       \* outcome of the latest step: "ok" or the error it raised
    remote,        \* what exists on the remote service
    prompt,        \* local of main(): the last line read
    reads,         \* number of input() calls made
    openRuns,      \* streamed runs currently open
    pending,       \* exception propagating through main's finally, or NoExc
    result,        \* how main ended
    cleanups,      \* number of times cleanup(agent, thread) was entered
    logged,        \* number of errors post_message logged
    clientOpen     \* project_client not yet closed

vars == <<pc, file, today, conn, toolset, database_schema_string, instructions,
          agent, thread, calls, outcome, remote, prompt, reads, openRuns,
          pending, result, cleanups, logged, clientOpen>>

----------------------------------------------------------------------------
(* Bounds of the model *)

\* longest instructions template, in fragments
MaxPieces == 4
\* number of input() calls the loop may make
MaxReads == 2

----------------------------------------------------------------------------
(* Text *)

DB_PLACEHOLDER == <<"{","d","a","t","a","b","a","s","e","_","s","c","h","e","m","a","_","s","t","r","i","n","g","}">>
DATE_PLACEHOLDER == <<"{","c","u","r","r","e","n","t","_","d","a","t","e","}">>

RECURSIVE Concat(_)
Concat(ss) == IF ss = <<>> THEN <<>> ELSE Head(ss) \o Concat(Tail(ss))

\* sub in s  (Python's `in` on str)
Contains(s, sub) ==
    \E i \in 1..(Len(s) - Len(sub) + 1) : SubSeq(s, i, i + Len(sub) - 1) = sub

\* str.find(old): the index of the leftmost occurrence of old in s, 0 if none
Find(s, old) ==
    LET at == { i \in 1..(Len(s) - Len(old) + 1) : SubSeq(s, i, i + Len(old) - 1) = old }
    IN  IF at = {} THEN 0 ELSE CHOOSE i \in at : \A j \in at : i <= j

\* str.replace(old, new) for a non-empty old: the occurrences are taken from
\* the left, each search starting behind the previous occurrence, and the
\* inserted text is never searched
RECURSIVE Replace(_, _, _)
Replace(s, old, new) ==
    LET i == Find(s, old)
    IN  IF i = 0 THEN s
        ELSE SubSeq(s, 1, i - 1) \o new
                 \o Replace(SubSeq(s, i + Len(old), Len(s)), old, new)

DigitChars == <<"0","1","2","3","4","5","6","7","8","9">>

\* n as decimal digits, zero-padded on the left to at least `width` characters
RECURSIVE Digits(_, _)
Digits(n, width) ==
    IF n < 10 /\ width <= 1 THEN <<DigitChars[n + 1]>>
    ELSE Digits(n \div 10, width - 1) \o <<DigitChars[(n % 10) + 1]>>

\* date.strftime("%Y-%m-%d")
Strftime(d) == Digits(d.year, 4) \o <<"-">> \o Digits(d.month, 2) \o <<"-">> \o Digits(d.day, 2)

UpperChars == <<"E","X","I","T","H">>
LowerChars == <<"e","x","i","t","h">>

\* str.lower() on the letters the model's lines use
LowerChar(c) ==
    IF \E i \in 1..Len(UpperChars) : UpperChars[i] = c
    THEN LowerChars[CHOOSE i \in 1..Len(UpperChars) : UpperChars[i] = c]
    ELSE c
Lower(s) == [i \in 1..Len(s) |-> LowerChar(s[i])]

\* the two replacements of initialize()
RenderSchemaOnly(template, schema, d) ==
    Replace(template, DB_PLACEHOLDER, schema)
Render(template, schema, d) ==
    Replace(Replace(template, DB_PLACEHOLDER, schema), DATE_PLACEHOLDER, Strftime(d))

----------------------------------------------------------------------------
(* Inputs *)

\* pieces an instructions file is assembled from
Fragments ==
    { <<"S","c","h","e","m","a",":"," ">>,
      <<","," ","D","a","t","e",":"," ">>,
      DB_PLACEHOLDER,
      DATE_PLACEHOLDER,
      <<"{","d","a","t","a","b","a","s","e","_">> \o DB_PLACEHOLDER
          \o <<"s","c","h","e","m","a","_","s","t","r","i","n","g","}">> }

\* every text of 0..MaxPieces fragments
Templates ==
    UNION { { Concat(ps) : ps \in [1..n -> Fragments] } : n \in 0..MaxPieces }

\* what sales_data.get_database_info() may return
Schemas ==
    { <<"t","b","l","(","i","d",")">>,
      <<>>,
      <<"_">>,
      <<"}">>,
      DATE_PLACEHOLDER,
      DB_PLACEHOLDER }

Dates == { [year |-> 2024, month |-> 5, day |-> 1],
           [year |-> 2025, month |-> 12, day |-> 31] }

ScenarioTemplate ==
    <<"S","c","h","e","m","a",":"," ">> \o DB_PLACEHOLDER
        \o <<","," ","D","a","t","e",":"," ">> \o DATE_PLACEHOLDER
ScenarioSchema == <<"t","b","l","(","i","d",")">>
ScenarioDate == [year |-> 2024, month |-> 5, day |-> 1]
ScenarioRendered ==
    <<"S","c","h","e","m","a",":"," ","t","b","l","(","i","d",")",
      ","," ","D","a","t","e",":"," ","2","0","2","4","-","0","5","-","0","1">>

\* the instructions file: absent, or present with a text
Missing == [exists |-> FALSE, text |-> <<>>]
Present(t) == [exists |-> TRUE, text |-> t]

\* inputs of the whole-program specification
InstructionFiles == { Missing, Present(ScenarioTemplate), Present(DB_PLACEHOLDER) }
DatabaseSchemas == { ScenarioSchema, DATE_PLACEHOLDER }

\* lines the terminal may deliver
EXIT == <<"e","x","i","t">>
Lines ==
    { EXIT,
      <<"E","X","I","T">>,
      <<"e","X","i","T">>,
      <<>>,
      <<"h","i">>,
      <<"e","x","i","t","s">> }

----------------------------------------------------------------------------
(* Errors: Python's class hierarchy as far as `except` clauses look at it *)

NoExc == "NoExc"
\* subclasses of Exception
ExceptionClasses ==
    {"AttributeError", "HttpResponseError", "FileNotFoundError", "RuntimeError", "EOFError"}
\* subclasses of BaseException only
BaseOnlyClasses == {"KeyboardInterrupt", "CancelledError"}

\* `except Exception`
IsException(e) == e \in ExceptionClasses
\* `except AttributeError`
IsAttributeErrorAll(e) == TRUE
IsAttributeErrorNone(e) == FALSE
IsAttributeError(e) == e = "AttributeError"

\* what an awaited call on the remote service or the database may raise
AwaitErrors == {"HttpResponseError", "CancelledError"}
\* what a delete call may raise (AttributeError: the SDK has no delete)
DeleteErrors == {"AttributeError", "HttpResponseError", "CancelledError"}
\* what input() may raise
InputErrors == {"EOFError", "KeyboardInterrupt"}

Unbound == "Unbound"
AgentId == "agent-1"
ThreadId == "thread-1"

----------------------------------------------------------------------------
(* Program constants *)

MAX_COMPLETION_TOKENS == 4096
MAX_PROMPT_TOKENS == 10240
\* 0.1 as an exact fraction
TEMPERATURE == [num |-> 1, den |-> 10]
TOP_P == [num |-> 1, den |-> 10]

----------------------------------------------------------------------------
(* Decisions of the control flow *)

\* main, line 200: prompt.lower() == "exit"
IsExitExact(p) == p = EXIT
IsExit(p) == Lower(p) = EXIT

\* main, line 202: not prompt
IsEmptyNever(p) == FALSE
IsEmpty(p) == p = <<>>

\* post_message, line 179: except Exception
PostMessageExceptNothing(e) == FALSE
PostMessageExcept(e) == IsException(e)

\* main, line 190: except Exception
MainExcept(e) == IsException(e)

\* main, lines 190-193: the handler of a failed initialize() returns
AfterInitFailureLoop == "input"
AfterInitFailure == "done"

\* main, lines 195/206: try/finally wraps the loop, so cleanup runs whatever
\* ends it (e = NoExc: break)
FinallyOnBreakOnly(e) == e = NoExc
FinallyRuns(e) == TRUE

\* post_message, lines 177-178: the opened stream is drained before returning
AfterStreamOpenedReturn == "input"
AfterStreamOpened == "until_done"

\* initialize, lines 118-125: the keyword arguments of create_agent
CreateAgentArgs(instr, tools) ==
    [model |-> "MODEL_DEPLOYMENT_NAME",
     name |-> "Contoso Sales AI Agent",
     instructions |-> instr,
     toolset |-> tools,
     temperature |-> TEMPERATURE]

Call(op, args, o) == [op |-> op, args |-> args, outcome |-> o]

\* outcomes of one awaited call: "ok" or one of the errors it may raise
Outcomes(errors) == {"ok"} \cup errors

----------------------------------------------------------------------------
(* State after construction: module level of main.py, lines 35-43 *)

Init ==
    /\ pc = "add_agent_tools"
    /\ file \in InstructionFiles
    /\ today = ScenarioDate
    /\ conn = "None"
    /\ toolset = <<>>
    /\ database_schema_string = <<>>
    /\ instructions = <<>>
    /\ agent = Unbound
    /\ thread = Unbound
    /\ calls = <<>>
    /\ outcome = "ok"
    /\ remote = [vector_store |-> "absent", agent |-> "absent", thread |-> "absent"]
    /\ prompt = <<>>
    /\ reads = 0
    /\ openRuns = 0
    /\ pending = NoExc
    /\ result = "running"
    /\ cleanups = 0
    /\ logged = 0
    /\ clientOpen = TRUE

----------------------------------------------------------------------------
(* initialize(), called from main line 189 *)

\* an error leaves initialize() (re-raised at line 142 when raised inside the
\* try) and reaches main's handler, lines 190-193
InitFails(e) ==
    /\ IF MainExcept(e)
       THEN /\ pc' = AfterInitFailure
            /\ result' = IF AfterInitFailure = "done" THEN "returned" ELSE result
            /\ pending' = NoExc
       ELSE /\ pc' = "done"
            /\ result' = "raised"
            /\ pending' = e
    /\ UNCHANGED <<agent, thread>>

\* add_agent_tools, lines 56-80
AddAgentTools ==
    /\ pc = "add_agent_tools"
    /\ \E o \in Outcomes(AwaitErrors) :
         /\ calls' = Append(calls, Call("create_vector_store", <<>>, o))
         /\ outcome' = o
         /\ IF o = "ok"
            THEN /\ toolset' = toolset \o <<"function", "code_interpreter", "file_search">>
                 /\ remote' = [remote EXCEPT !.vector_store = "live"]
                 /\ pc' = "connect"
                 /\ UNCHANGED <<agent, thread, pending, result>>
            ELSE /\ toolset' = toolset \o <<"function", "code_interpreter">>
                 /\ InitFails(o)
                 /\ UNCHANGED remote
    /\ UNCHANGED <<file, today, conn, database_schema_string, instructions, prompt,
                   reads, openRuns, cleanups, logged, clientOpen>>

\* initialize, line 88: sales_data.connect() opens the database, leaves conn
\* None, or raises
Connect ==
    /\ pc = "connect"
    /\ \E c \in {"open", "None"}, o \in Outcomes(AwaitErrors) :
         /\ calls' = Append(calls, Call("sales_data.connect", <<>>, o))
         /\ outcome' = o
         /\ IF o = "ok"
            THEN /\ conn' = c
                 /\ pc' = "get_database_info"
                 /\ UNCHANGED <<agent, thread, pending, result>>
            ELSE /\ InitFails(o)
                 /\ UNCHANGED conn
    /\ UNCHANGED <<file, today, toolset, database_schema_string, instructions,
                   remote, prompt, reads, openRuns, cleanups, logged, clientOpen>>

\* initialize, line 89
GetDatabaseInfo ==
    /\ pc = "get_database_info"
    /\ \E s \in DatabaseSchemas, o \in Outcomes(AwaitErrors) :
         /\ calls' = Append(calls, Call("sales_data.get_database_info", <<>>, o))
         /\ outcome' = o
         /\ IF o = "ok"
            THEN /\ database_schema_string' = s
                 /\ pc' = "render"
                 /\ UNCHANGED <<agent, thread, pending, result>>
            ELSE /\ InitFails(o)
                 /\ UNCHANGED database_schema_string
    /\ UNCHANGED <<file, today, conn, toolset, instructions, remote, prompt, reads,
                   openRuns, cleanups, logged, clientOpen>>

\* initialize, lines 91-109: the two checks, the read and the two replacements
RenderInstructions ==
    /\ pc = "render"
    /\ IF ~file.exists
       THEN /\ outcome' = "FileNotFoundError"
            /\ InitFails("FileNotFoundError")
            /\ UNCHANGED instructions
       ELSE IF conn = "None"
       THEN /\ outcome' = "RuntimeError"
            /\ InitFails("RuntimeError")
            /\ UNCHANGED instructions
       ELSE /\ outcome' = "ok"
            /\ instructions' = Render(file.text, database_schema_string, today)
            /\ pc' = "create_agent"
            /\ UNCHANGED <<agent, thread, pending, result>>
    /\ UNCHANGED <<file, today, conn, toolset, database_schema_string, calls,
                   remote, prompt, reads, openRuns, cleanups, logged, clientOpen>>

\* initialize, lines 111-126
CreateAgent ==
    /\ pc = "create_agent"
    /\ \E o \in Outcomes(AwaitErrors) :
         /\ calls' = Append(calls,
                            Call("create_agent",
                                 CreateAgentArgs(instructions, toolset), o))
         /\ outcome' = o
         /\ IF o = "ok"
            THEN /\ remote' = [remote EXCEPT !.agent = "live"]
                 /\ pc' = "create_thread"
                 /\ UNCHANGED <<agent, thread, pending, result>>
            ELSE /\ InitFails(o)
                 /\ UNCHANGED remote
    /\ UNCHANGED <<file, today, conn, toolset, database_schema_string, instructions,
                   prompt, reads, openRuns, cleanups, logged, clientOpen>>

\* initialize, lines 133-137, and the assignment of main line 189
CreateThread ==
    /\ pc = "create_thread"
    /\ \E o \in Outcomes(AwaitErrors) :
         /\ calls' = Append(calls, Call("threads.create", <<>>, o))
         /\ outcome' = o
         /\ IF o = "ok"
            THEN /\ remote' = [remote EXCEPT !.thread = "live"]
                 /\ agent' = AgentId
                 /\ thread' = ThreadId
                 /\ pc' = "input"
                 /\ UNCHANGED <<pending, result>>
            ELSE /\ InitFails(o)
                 /\ UNCHANGED remote
    /\ UNCHANGED <<file, today, conn, toolset, database_schema_string, instructions,
                   prompt, reads, openRuns, cleanups, logged, clientOpen>>

----------------------------------------------------------------------------
(* main's loop, lines 195-205, and post_message, lines 161-180 *)

\* the loop ends, by break (e = NoExc) or by the exception e: the finally
\* clause of line 206 calls cleanup(agent, thread)
LeaveLoop(e) ==
    /\ pending' = e
    /\ IF FinallyRuns(e)
       THEN /\ pc' = "threads_delete"
            /\ cleanups' = cleanups + 1
            /\ UNCHANGED result
       ELSE /\ pc' = "done"
            /\ result' = "raised"
            /\ UNCHANGED cleanups

\* main, lines 199-205: a line is read and tested
Input ==
    /\ pc = "input"
    /\ reads < MaxReads
    /\ reads' = reads + 1
    /\ outcome' = "ok"
    /\ \E l \in Lines :
         /\ prompt' = l
         /\ IF IsExit(l)
            THEN LeaveLoop(NoExc)
            ELSE /\ pc' = IF IsEmpty(l) THEN "input" ELSE "messages_create"
                 /\ UNCHANGED <<pending, result, cleanups>>
    /\ UNCHANGED <<file, today, conn, toolset, database_schema_string, instructions,
                   agent, thread, calls, remote, openRuns, logged, clientOpen>>

\* main, line 199: input() raises (end of input, interrupt)
InputRaises ==
    /\ pc = "input"
    /\ reads < MaxReads
    /\ reads' = reads + 1
    /\ \E e \in InputErrors :
         /\ outcome' = e
         /\ LeaveLoop(e)
    /\ UNCHANGED <<file, today, conn, toolset, database_schema_string, instructions,
                   agent, thread, calls, remote, prompt, openRuns, logged,
                   clientOpen>>

\* an error raised inside post_message's try: caught and logged at lines
\* 179-180, after which post_message returns to the loop; otherwise it
\* leaves post_message and the loop
PostMessageFails(e) ==
    IF PostMessageExcept(e)
    THEN /\ logged' = logged + 1
         /\ pc' = "input"
         /\ UNCHANGED <<pending, result, cleanups>>
    ELSE /\ LeaveLoop(e)
         /\ UNCHANGED logged

\* post_message, lines 164-168
MessagesCreate ==
    /\ pc = "messages_create"
    /\ \E o \in Outcomes(AwaitErrors) :
         /\ calls' = Append(calls,
                            Call("messages.create",
                                 [thread_id |-> thread, role |-> "user",
                                  content |-> prompt], o))
         /\ outcome' = o
         /\ IF o = "ok"
            THEN /\ pc' = "runs_stream"
                 /\ UNCHANGED <<pending, result, cleanups, logged>>
            ELSE PostMessageFails(o)
    /\ UNCHANGED <<file, today, conn, toolset, database_schema_string, instructions,
                   agent, thread, remote, prompt, reads, openRuns, clientOpen>>

\* post_message, lines 171-175
RunsStream ==
    /\ pc = "runs_stream"
    /\ \E o \in Outcomes(AwaitErrors) :
         /\ calls' = Append(calls,
                            Call("runs.stream",
                                 [thread_id |-> thread, agent_id |-> agent], o))
         /\ outcome' = o
         /\ IF o = "ok"
            THEN /\ openRuns' = openRuns + 1
                 /\ pc' = AfterStreamOpened
                 /\ UNCHANGED <<pending, result, cleanups, logged>>
            ELSE /\ PostMessageFails(o)
                 /\ UNCHANGED openRuns
    /\ UNCHANGED <<file, today, conn, toolset, database_schema_string, instructions,
                   agent, thread, remote, prompt, reads, clientOpen>>

\* post_message, lines 177-178: the stream is drained; leaving the
\* `async with` closes it on either way out
UntilDone ==
    /\ pc = "until_done"
    /\ openRuns' = openRuns - 1
    /\ \E o \in Outcomes(AwaitErrors) :
         /\ calls' = Append(calls, Call("until_done", <<>>, o))
         /\ outcome' = o
         /\ IF o = "ok"
            THEN /\ pc' = "input"
                 /\ UNCHANGED <<pending, result, cleanups, logged>>
            ELSE PostMessageFails(o)
    /\ UNCHANGED <<file, today, conn, toolset, database_schema_string, instructions,
                   agent, thread, remote, prompt, reads, clientOpen>>

----------------------------------------------------------------------------
(* cleanup(agent, thread), lines 145-158, called from main line 207 *)

\* an error leaves cleanup and, through the finally clause, main
CleanupFails(e) ==
    /\ pc' = "done"
    /\ pending' = e
    /\ result' = "raised"

\* cleanup, lines 148-151
ThreadsDelete ==
    /\ pc = "threads_delete"
    /\ \E o \in Outcomes(DeleteErrors) :
         /\ calls' = Append(calls, Call("threads.delete", [thread_id |-> thread], o))
         /\ outcome' = o
         /\ IF o = "ok"
            THEN /\ remote' = [remote EXCEPT !.thread = "deleted"]
                 /\ pc' = "agents_delete"
                 /\ UNCHANGED <<pending, result>>
            ELSE IF IsAttributeError(o)
            THEN /\ pc' = "agents_delete"
                 /\ UNCHANGED <<remote, pending, result>>
            ELSE /\ CleanupFails(o)
                 /\ UNCHANGED remote
    /\ UNCHANGED <<file, today, conn, toolset, database_schema_string, instructions,
                   agent, thread, prompt, reads, openRuns, cleanups, logged,
                   clientOpen>>

\* cleanup, lines 152-155
AgentsDelete ==
    /\ pc = "agents_delete"
    /\ \E o \in Outcomes(DeleteErrors) :
         /\ calls' = Append(calls, Call("agents.delete", [agent_id |-> agent], o))
         /\ outcome' = o
         /\ IF o = "ok"
            THEN /\ remote' = [remote EXCEPT !.agent = "deleted"]
                 /\ pc' = "sales_data_close"
                 /\ UNCHANGED <<pending, result>>
            ELSE IF IsAttributeError(o)
            THEN /\ pc' = "sales_data_close"
                 /\ UNCHANGED <<remote, pending, result>>
            ELSE /\ CleanupFails(o)
                 /\ UNCHANGED remote
    /\ UNCHANGED <<file, today, conn, toolset, database_schema_string, instructions,
                   agent, thread, prompt, reads, openRuns, cleanups, logged,
                   clientOpen>>

\* cleanup, line 156
SalesDataClose ==
    /\ pc = "sales_data_close"
    /\ \E o \in Outcomes(AwaitErrors) :
         /\ calls' = Append(calls, Call("sales_data.close", <<>>, o))
         /\ outcome' = o
         /\ IF o = "ok"
            THEN /\ conn' = "closed"
                 /\ pc' = "client_close"
                 /\ UNCHANGED <<pending, result>>
            ELSE /\ CleanupFails(o)
                 /\ UNCHANGED conn
    /\ UNCHANGED <<file, today, toolset, database_schema_string, instructions,
                   agent, thread, remote, prompt, reads, openRuns, cleanups,
                   logged, clientOpen>>

\* cleanup, line 158, and the end of main's finally clause: the exception that
\* ended the loop, if any, goes on propagating
ClientClose ==
    /\ pc = "client_close"
    /\ \E o \in Outcomes(AwaitErrors) :
         /\ calls' = Append(calls, Call("close", <<>>, o))
         /\ outcome' = o
         /\ IF o = "ok"
            THEN /\ clientOpen' = FALSE
                 /\ pc' = "done"
                 /\ result' = IF pending = NoExc THEN "returned" ELSE "raised"
                 /\ UNCHANGED pending
            ELSE /\ CleanupFails(o)
                 /\ UNCHANGED clientOpen
    /\ UNCHANGED <<file, today, conn, toolset, database_schema_string, instructions,
                   agent, thread, remote, prompt, reads, openRuns, cleanups, logged>>

----------------------------------------------------------------------------
(* Specifications *)

Next ==
    \/ AddAgentTools
    \/ Connect
    \/ GetDatabaseInfo
    \/ RenderInstructions
    \/ CreateAgent
    \/ CreateThread
    \/ Input
    \/ InputRaises
    \/ MessagesCreate
    \/ RunsStream
    \/ UntilDone
    \/ ThreadsDelete
    \/ AgentsDelete
    \/ SalesDataClose
    \/ ClientClose

\* the whole program
Spec == Init /\ [][Next]_vars

\* initialize() at line 91, the tools added, sales_data.connect() returned and
\* the schema read, for every instructions file, schema and date of the
\* bounded sets
InitRender ==
    /\ pc = "render"
    /\ file \in {Missing} \cup { Present(t) : t \in Templates }
    /\ today \in Dates
    /\ conn \in {"open", "None"}
    /\ toolset = <<"function", "code_interpreter", "file_search">>
    /\ database_schema_string \in Schemas
    /\ instructions = <<>>
    /\ agent = Unbound
    /\ thread = Unbound
    /\ calls = <<Call("create_vector_store", <<>>, "ok"),
                 Call("sales_data.connect", <<>>, "ok"),
                 Call("sales_data.get_database_info", <<>>, "ok")>>
    /\ outcome = "ok"
    /\ remote = [vector_store |-> "live", agent |-> "absent", thread |-> "absent"]
    /\ prompt = <<>>
    /\ reads = 0
    /\ openRuns = 0
    /\ pending = NoExc
    /\ result = "running"
    /\ cleanups = 0
    /\ logged = 0
    /\ clientOpen = TRUE

\* the templating step of initialize() alone
SpecRender == InitRender /\ [][RenderInstructions]_vars

----------------------------------------------------------------------------
(* Properties *)

\* positions of the calls of one operation in the log
CallsOf(op) == { i \in DOMAIN calls : calls[i].op = op }
\* the calls a step appends to the log
NewCalls == { i \in DOMAIN calls' : i > Len(calls) }
TurnOps == {"messages.create", "runs.stream", "until_done"}
InitPcs == {"add_agent_tools", "connect", "get_database_info", "render",
            "create_agent", "create_thread"}
PostMessagePcs == {"messages_create", "runs_stream", "until_done"}
CleanupPcs == {"threads_delete", "agents_delete", "sales_data_close", "client_close"}
\* a line was read (input() returned) in this step
ReadsLine == pc = "input" /\ reads' = reads + 1 /\ outcome' = "ok"

\* C1: once initialize() has succeeded, a line that lower-cases to "exit"
\* (whatever its letter case) creates no message and opens no run, is the
\* last line read, and is followed at once by cleanup(agent, thread).
C1_ExitEndsLoop ==
    /\ [][(ReadsLine /\ Lower(prompt') = EXIT)
            => /\ agent = AgentId /\ thread = ThreadId
               /\ pc' = "threads_delete"
               /\ cleanups' = cleanups + 1
               /\ calls' = calls]_vars
    /\ [][(reads > 0 /\ Lower(prompt) = EXIT)
            => /\ reads' = reads
               /\ prompt' = prompt
               /\ \A i \in NewCalls : calls'[i].op \notin TurnOps]_vars

\* an upper-case EXIT was read and cleanup has been entered
C1_Witness ==
    /\ prompt = <<"E","X","I","T">>
    /\ pc = "threads_delete"
    /\ cleanups = 1
    /\ CallsOf("messages.create") = {}

\* C2: an empty line posts nothing (no message, no run), does not end the
\* loop and does not start cleanup: the next step is another prompt read.
C2_EmptyLineReprompts ==
    [][(ReadsLine /\ prompt' = <<>>)
         => /\ pc' = "input"
            /\ calls' = calls
            /\ openRuns' = openRuns
            /\ cleanups' = cleanups
            /\ result' = "running"
            /\ pending' = NoExc]_vars

\* an empty first line was read and the loop is back at the prompt
C2_Witness ==
    /\ reads = 1
    /\ prompt = <<>>
    /\ pc = "input"
    /\ outcome = "ok"
    /\ cleanups = 0

\* C3 as stated: whatever the message creation, the stream opening or the
\* draining raises, post_message logs it and returns; the loop reads the next
\* prompt and cleanup is not started.
C3_EveryErrorCaught ==
    [][(pc \in PostMessagePcs /\ outcome' # "ok")
         => /\ pc' = "input"
            /\ logged' = logged + 1
            /\ cleanups' = cleanups
            /\ pending' = NoExc]_vars

\* C3 amended: an error of a subclass of Exception raised by one of the three
\* calls is logged and post_message returns to the loop with no run left
\* open; an error that derives from BaseException only (KeyboardInterrupt,
\* CancelledError) is not logged, leaves post_message and the loop, and
\* starts cleanup.
C3_ExceptionsCaught ==
    [][(pc \in PostMessagePcs /\ outcome' # "ok")
         => IF outcome' \in ExceptionClasses
            THEN /\ pc' = "input"
                 /\ logged' = logged + 1
                 /\ cleanups' = cleanups
                 /\ openRuns' = 0
                 /\ result' = "running"
                 /\ pending' = NoExc
            ELSE /\ pc' = "threads_delete"
                 /\ logged' = logged
                 /\ cleanups' = cleanups + 1
                 /\ pending' = outcome']_vars

\* a failed turn was logged and the loop went on to post the next prompt
C3_Witness ==
    /\ logged = 1
    /\ reads = 2
    /\ pc = "messages_create"
    /\ calls[Len(calls)].outcome = "HttpResponseError"

\* C4: when a step of initialize() fails, main ends there: no prompt is read,
\* no message posted, no step of initialize() made twice, and agent and thread
\* stay unbound.
C4_InitFailureAborts ==
    /\ [][(pc \in InitPcs /\ outcome' # "ok")
            => /\ pc' = "done"
               /\ agent' = Unbound /\ thread' = Unbound]_vars
    /\ []((pc = "done" /\ agent = Unbound)
            => /\ thread = Unbound
               /\ reads = 0
               /\ \A i \in DOMAIN calls : calls[i].op \notin TurnOps
               /\ \A i, j \in DOMAIN calls : calls[i].op = calls[j].op => i = j)
    /\ [](pc \notin InitPcs \cup {"done"} => agent = AgentId /\ thread = ThreadId)

\* the instructions file is missing and main has returned
C4_Witness ==
    /\ pc = "done"
    /\ outcome = "FileNotFoundError"
    /\ result = "returned"
    /\ agent = Unbound
    /\ reads = 0

\* C5 as stated: the create_agent request carries temperature, top-p and the
\* two token budgets.
C5_AllFourSettings ==
    \A i \in CallsOf("create_agent") :
        /\ {"temperature", "top_p", "max_prompt_tokens", "max_completion_tokens"}
               \subseteq DOMAIN calls[i].args
        /\ calls[i].args.temperature = TEMPERATURE
        /\ calls[i].args.top_p = TOP_P
        /\ calls[i].args.max_prompt_tokens = MAX_PROMPT_TOKENS
        /\ calls[i].args.max_completion_tokens = MAX_COMPLETION_TOKENS

\* C6 as stated: after a clean exit the thread deletion and then the agent
\* deletion have each been requested exactly once, whatever the deletion
\* calls answered.
C6_BothDeletedAlways ==
    (pc = "done" /\ reads > 0 /\ Lower(prompt) = EXIT)
        => /\ Cardinality(CallsOf("threads.delete")) = 1
           /\ Cardinality(CallsOf("agents.delete")) = 1
           /\ \A i \in CallsOf("threads.delete"), j \in CallsOf("agents.delete") : i < j

\* C6 amended: after a clean exit the thread deletion has been requested
\* exactly once; the agent deletion has been requested, once and right after
\* it, exactly when the thread deletion returned or raised AttributeError;
\* any other error of the thread deletion ends cleanup with the agent
\* deletion never requested.
C6_DeletedUnlessThreadDeleteFails ==
    (pc = "done" /\ reads > 0 /\ Lower(prompt) = EXIT)
        => /\ Cardinality(CallsOf("threads.delete")) = 1
           /\ Cardinality(CallsOf("agents.delete")) <= 1
           /\ \A i \in CallsOf("threads.delete") :
                /\ calls[i].args.thread_id = ThreadId
                /\ IF calls[i].outcome \in {"ok", "AttributeError"}
                   THEN /\ CallsOf("agents.delete") = {i + 1}
                        /\ calls[i + 1].args.agent_id = AgentId
                   ELSE /\ CallsOf("agents.delete") = {}
                        /\ result = "raised"

\* clean exit, both deletions answered ok, main returned
C6_Witness ==
    /\ pc = "done"
    /\ Lower(prompt) = EXIT
    /\ result = "returned"
    /\ remote.thread = "deleted"
    /\ remote.agent = "deleted"

\* C7: in cleanup an AttributeError of either deletion is swallowed, so the
\* following steps are still made and, when none of them raises, cleanup
\* returns with the database and the client closed; any other error of
\* either deletion leaves cleanup at once.
C7_OnlyAttributeErrorSwallowed ==
    /\ [][(pc = "threads_delete" /\ outcome' # "ok")
            => IF outcome' = "AttributeError"
               THEN pc' = "agents_delete" /\ pending' = pending /\ result' = result
               ELSE pc' = "done" /\ pending' = outcome' /\ result' = "raised"]_vars
    /\ [][(pc = "agents_delete" /\ outcome' # "ok")
            => IF outcome' = "AttributeError"
               THEN pc' = "sales_data_close" /\ pending' = pending /\ result' = result
               ELSE pc' = "done" /\ pending' = outcome' /\ result' = "raised"]_vars
    /\ []((/\ pc = "done"
           /\ cleanups > 0
           /\ \A i \in DOMAIN calls :
                \/ calls[i].outcome = "ok"
                \/ calls[i].op \in TurnOps
                \/ /\ calls[i].op \in {"threads.delete", "agents.delete"}
                   /\ calls[i].outcome = "AttributeError")
            => /\ Cardinality(CallsOf("threads.delete")) = 1
               /\ Cardinality(CallsOf("agents.delete")) = 1
               /\ Cardinality(CallsOf("sales_data.close")) = 1
               /\ Cardinality(CallsOf("close")) = 1
               /\ conn = "closed"
               /\ ~clientOpen
               /\ (pending = NoExc => result = "returned"))

\* both deletions raised AttributeError and cleanup still closed the database
\* and the client and returned
C7_Witness ==
    /\ pc = "done"
    /\ result = "returned"
    /\ \E i \in CallsOf("threads.delete") : calls[i].outcome = "AttributeError"
    /\ \E i \in CallsOf("agents.delete") : calls[i].outcome = "AttributeError"
    /\ conn = "closed"
    /\ ~clientOpen

HasBrace(s) == \E i \in DOMAIN s : s[i] \in {"{", "}"}
\* every brace of s belongs to an occurrence of one of the two placeholders
BracesOnlyInPlaceholders(s) ==
    \A i \in DOMAIN s :
        s[i] \in {"{", "}"} =>
            \E p \in {DB_PLACEHOLDER, DATE_PLACEHOLDER} :
                \E k \in 1..(Len(s) - Len(p) + 1) :
                    /\ k <= i /\ i < k + Len(p)
                    /\ SubSeq(s, k, k + Len(p) - 1) = p
IsoShaped(s) ==
    /\ Len(s) = 10
    /\ s[5] = "-" /\ s[8] = "-"
    /\ \A i \in {1, 2, 3, 4, 6, 7, 9, 10} : \E d \in DOMAIN DigitChars : DigitChars[d] = s[i]
Rendered == pc = "create_agent"
BothPlaceholders ==
    Contains(file.text, DB_PLACEHOLDER) /\ Contains(file.text, DATE_PLACEHOLDER)
RenderedAsClaimed ==
    /\ ~Contains(instructions, DB_PLACEHOLDER)
    /\ ~Contains(instructions, DATE_PLACEHOLDER)
    /\ Contains(instructions, database_schema_string)
    /\ Contains(instructions, Strftime(today))
    /\ IsoShaped(Strftime(today))
ScenarioAsClaimed ==
    (file.text = ScenarioTemplate /\ database_schema_string = ScenarioSchema
        /\ today = ScenarioDate) => instructions = ScenarioRendered

\* C8 as stated: for every template with both placeholders and every schema
\* string, the rendered instructions hold neither placeholder and hold the
\* schema string and today's date as YYYY-MM-DD.
C8_RenderAnySchema ==
    (Rendered /\ BothPlaceholders) => (RenderedAsClaimed /\ ScenarioAsClaimed)

\* C8 amended: the same, for every template whose braces all belong to
\* occurrences of the two placeholders and every schema string without
\* braces.
C8_RenderBraceFree ==
    (/\ Rendered
     /\ BothPlaceholders
     /\ BracesOnlyInPlaceholders(file.text)
     /\ ~HasBrace(database_schema_string))
        => (RenderedAsClaimed /\ ScenarioAsClaimed)

\* the scenario of the specification has been rendered
C8_Witness ==
    /\ Rendered
    /\ file.text = ScenarioTemplate
    /\ database_schema_string = ScenarioSchema
    /\ instructions = ScenarioRendered

\* C9: at most one streamed run is open; a prompt is read, and a message
\* created, only when no run is open and the previous post_message is over;
\* every run is opened right after its turn's message was created on the
\* same thread.
C9_StrictlySerial ==
    /\ [](openRuns \in {0, 1})
    /\ [](pc \in {"input", "messages_create", "runs_stream"} => openRuns = 0)
    /\ [](openRuns = 1 => pc = "until_done")
    /\ [][reads' # reads => (pc = "input" /\ openRuns = 0)]_vars
    /\ [](\A i \in CallsOf("runs.stream") :
            /\ i > 1
            /\ calls[i - 1].op = "messages.create"
            /\ calls[i - 1].outcome = "ok"
            /\ calls[i - 1].args.thread_id = calls[i].args.thread_id)
    /\ [](\A i \in CallsOf("messages.create") :
            i > 1 /\ calls[i - 1].op = "runs.stream" => calls[i - 1].outcome # "ok")

\* the run of a second turn is open, the first turn's run having been drained
C9_Witness ==
    /\ openRuns = 1
    /\ pc = "until_done"
    /\ reads = 2
    /\ Cardinality(CallsOf("until_done")) = 1

\* C10: cleanup is entered at most once, and by the end of main exactly once
\* if initialize() returned the pair and never if it failed; an exception of
\* input() enters it too; after a failed initialize() nothing is deleted or
\* closed, even with the agent already created remotely.
C10_CleanupIffInitialized ==
    /\ [](cleanups \in {0, 1})
    /\ [](pc = "done" => (cleanups = 1 <=> agent = AgentId /\ thread = ThreadId))
    /\ [](pc \in CleanupPcs => cleanups = 1)
    /\ [][(pc = "input" /\ outcome' \in InputErrors)
            => (pc' = "threads_delete" /\ cleanups' = cleanups + 1)]_vars
    /\ [][(pc \in (PostMessagePcs \cup {"input"})
              /\ pc' \notin (PostMessagePcs \cup {"input"}))
            => (pc' = "threads_delete" /\ cleanups' = cleanups + 1)]_vars
    /\ []((pc = "done" /\ agent = Unbound)
            => /\ cleanups = 0
               /\ CallsOf("threads.delete") \cup CallsOf("agents.delete") = {}
               /\ CallsOf("sales_data.close") \cup CallsOf("close") = {}
               /\ remote.agent # "deleted"
               /\ conn # "closed"
               /\ clientOpen)

\* thread creation failed after the agent was created: main is over, the
\* agent lives on remotely and the database and client are still open
C10_Witness ==
    /\ pc = "done"
    /\ agent = Unbound
    /\ remote.agent = "live"
    /\ conn = "open"
    /\ clientOpen
    /\ cleanups = 0

====
